---- MODULE Spec2Model ----
(***************************************************************************)
(* gitpure: the Repo class of src/lib.rs.                                  *)
(*                                                                         *)
(*   Repo::clone_from(url, to_path, bare)  lines 26-66                     *)
(*   Repo::branches()                      lines 69-99                     *)
(*                                                                         *)
(* Text is modelled as it is stored: a Rust String is a sequence of UTF-8  *)
(* bytes, a reference name (gix BStr) is a sequence of arbitrary bytes.    *)
(* A full reference name is a record [prefix, rest]: the namespace prefix  *)
(* ("refs/heads/", ...) and the bytes that follow it.                      *)
(***************************************************************************)
EXTENDS Integers, Sequences, FiniteSets, TLC

VARIABLES
    refs,            \* Reference Store of the repository on disk: set of full names
    fault,           \* what is broken in the store on disk
    branchesResult,  \* what the last branches() call returned (with its inputs)
    bare,            \* clone_from's `bare` argument
    remoteHeads,     \* branch short names the remote at `url` advertises
    phase,           \* position of the clone_from call
    trace,           \* the phases the call has entered, in order
    interrupted,     \* gix::interrupt::IS_INTERRUPTED
    worktree,        \* "none" | "created" | "checkedout": the worktree directory
    checkoutInvoked, \* main_worktree() has been called
    libErr,          \* the error a gix call returned to clone_from, "" when none
    cloneResult      \* what clone_from returned: [kind, exception, msg, cause]

vars == <<refs, fault, branchesResult, bare, remoteHeads, phase, trace,
          interrupted, worktree, checkoutInvoked, libErr, cloneResult>>

cloneVars == <<bare, remoteHeads, phase, trace, interrupted,
               worktree, checkoutInvoked, libErr, cloneResult>>

-----------------------------------------------------------------------------
(* Bounds of the model *)

\* most references a repository on disk holds
MaxRefs == 3

\* most branches the remote advertises
MaxRemoteBranches == 2

-----------------------------------------------------------------------------
(* Reference names *)

\* short names a branch may have: "a", "b", "ab", "e-acute" (C3 A9), a lone
\* lead byte C3, a lone continuation byte A9, C3 followed by "a", and the
\* literal U+FFFD (EF BF BD)
ShortNames ==
    { <<97>>, <<98>>, <<97, 98>>, <<195, 169>>, <<195>>, <<169>>,
      <<195, 97>>, <<239, 191, 189>> }

HeadsPrefix == "refs/heads/"
TagsPrefix == "refs/tags/"
RemotesPrefix == "refs/remotes/"

\* "origin/"
OriginSlash == <<111, 114, 105, 103, 105, 110, 47>>

FullName(p, r) == [prefix |-> p, rest |-> r]

\* the names a repository on disk is drawn from
RefUniverse ==
    { FullName(HeadsPrefix, n) : n \in ShortNames }
        \cup { FullName(TagsPrefix, <<97>>),
               FullName(RemotesPrefix, OriginSlash \o <<97>>) }

\* gix FullNameRef::shorten: strip the prefix of a known category
CategoryPrefixes == {HeadsPrefix, TagsPrefix, RemotesPrefix}

shorten(name) ==
    IF name.prefix \in CategoryPrefixes THEN name.rest ELSE name

\* iterating over all references instead of the local branches
all_references(store) == store

\* gix Platform::local_branches: the references under refs/heads/
local_branches(store) == { n \in store : n.prefix = HeadsPrefix }

-----------------------------------------------------------------------------
(* UTF-8: BStr::to_str and the lossy Display of BStr *)

ReplacementChar == <<239, 191, 189>>

IsCont(b) == b \in 128..191

\* bytes a sequence starting with lead byte b needs, 0 when b cannot lead
Need(b) ==
    IF b < 128 THEN 1
    ELSE IF b \in 194..223 THEN 2
    ELSE IF b \in 224..239 THEN 3
    ELSE IF b \in 240..244 THEN 4
    ELSE 0

\* the values the byte after lead byte b may take
SecondRange(b) ==
    IF b = 224 THEN 160..191
    ELSE IF b = 237 THEN 128..159
    ELSE IF b = 240 THEN 144..191
    ELSE IF b = 244 THEN 128..143
    ELSE 128..191

\* length of the longest prefix of s[i..] that begins a well-formed sequence
Matched(s, i) ==
    LET b == s[i]
        n == Need(b)
        k2 == n >= 2 /\ i + 1 <= Len(s) /\ s[i + 1] \in SecondRange(b)
        k3 == k2 /\ n >= 3 /\ i + 2 <= Len(s) /\ IsCont(s[i + 2])
        k4 == k3 /\ n >= 4 /\ i + 3 <= Len(s) /\ IsCont(s[i + 3])
    IN  IF k4 THEN 4 ELSE IF k3 THEN 3 ELSE IF k2 THEN 2 ELSE 1

\* s[i..] starts with a complete well-formed sequence
ValidAt(s, i) == Need(s[i]) > 0 /\ Matched(s, i) = Need(s[i])

RECURSIVE ValidFrom(_, _)
ValidFrom(s, i) ==
    IF i > Len(s) THEN TRUE
    ELSE ValidAt(s, i) /\ ValidFrom(s, i + Need(s[i]))

\* BStr::to_str succeeds
IsUtf8(s) == ValidFrom(s, 1)

RECURSIVE LossyFrom(_, _)
LossyFrom(s, i) ==
    IF i > Len(s) THEN <<>>
    ELSE IF ValidAt(s, i)
         THEN SubSeq(s, i, i + Need(s[i]) - 1) \o LossyFrom(s, i + Need(s[i]))
         ELSE ReplacementChar \o LossyFrom(s, i + Matched(s, i))

\* BStr's Display: every maximal ill-formed part becomes one U+FFFD
to_string(s) == LossyFrom(s, 1)

\* lines 86-92: the display name of a reference
DisplayName(reference) ==
    LET short_name == shorten(reference)
    IN  IF IsUtf8(short_name) THEN short_name ELSE to_string(short_name)

-----------------------------------------------------------------------------
(* Vec<String>::sort and Vec::dedup *)

RECURSIVE LexLess(_, _)
LexLess(a, b) ==
    IF b = <<>> THEN FALSE
    ELSE IF a = <<>> THEN TRUE
    ELSE IF a[1] < b[1] THEN TRUE
    ELSE IF a[1] > b[1] THEN FALSE
    ELSE LexLess(Tail(a), Tail(b))

RECURSIVE Insert(_, _)
Insert(x, s) ==
    IF s = <<>> THEN <<x>>
    ELSE IF LexLess(x, s[1]) THEN <<x>> \o s
    ELSE <<s[1]>> \o Insert(x, Tail(s))

RECURSIVE sort(_)
sort(s) ==
    IF s = <<>> THEN <<>>
    ELSE Insert(s[Len(s)], sort(SubSeq(s, 1, Len(s) - 1)))

RECURSIVE dedup(_)
dedup(s) ==
    IF Len(s) <= 1 THEN s
    ELSE IF s[1] = s[2] THEN dedup(Tail(s))
    ELSE <<s[1]>> \o dedup(Tail(s))

-----------------------------------------------------------------------------
(* Repo::branches, lines 69-99 *)

\* the condition of the store on disk: the references whose files cannot be
\* read, and whether opening the store ("access") or starting the iteration
\* over refs/heads/ ("iter") fails
NoFault == [bad |-> {}, failAt |-> "none"]

Faults(store) ==
    [bad : SUBSET local_branches(store), failAt : {"none", "access", "iter"}]

NotCalled == [kind |-> "none", value |-> <<>>, msg |-> "", at |-> <<>>, order |-> <<>>]

BranchesOk(v, o) ==
    [kind |-> "Ok", value |-> v, msg |-> "", at |-> <<>>, order |-> o]

BranchesErr(m, a, o) ==
    [kind |-> "Err", value |-> <<>>, msg |-> m, at |-> a, order |-> o]

\* the orders in which the store may enumerate the set S
Orders(S) ==
    { o \in [1..Cardinality(S) -> S] :
        \A i, j \in 1..Cardinality(S) : i # j => o[i] # o[j] }

\* position of the first reference of `order` that fails to load, 0 when none
FirstBad(order, bad) ==
    LET idx == { i \in 1..Len(order) : order[i] \in bad }
    IN  IF idx = {} THEN 0 ELSE CHOOSE i \in idx : \A j \in idx : i <= j

\* filter_map(Result::ok) in place of collecting into a Result: the
\* references that fail to load are dropped
SkipUnreadable(order, bad) ==
    [kind |-> "Ok", refs |-> SelectSeq(order, LAMBDA r : r \notin bad), at |-> <<>>]

\* lines 78-84: collect::<Result<Vec<_>, _>>() stops at the first Err
CollectLoaded(order, bad) ==
    IF FirstBad(order, bad) = 0
    THEN [kind |-> "Ok", refs |-> order, at |-> <<>>]
    ELSE [kind |-> "Err", refs |-> <<>>, at |-> <<order[FirstBad(order, bad)]>>]

\* lines 85-93: the display name of every loaded reference
MapNames(loaded) == [i \in 1..Len(loaded) |-> DisplayName(loaded[i])]

\* dedup() called before sort(): duplicates that are not adjacent survive
DedupThenSort(names) == sort(dedup(names))

\* lines 95-96
SortDedup(names) == dedup(sort(names))

\* lines 70-98: the value branches() returns when the store is in condition
\* f and enumerates its local branches in `order`
branches_value(order, f) ==
    IF f.failAt = "access"
    THEN BranchesErr("Failed to access references: ", <<>>, <<>>)
    ELSE IF f.failAt = "iter"
    THEN BranchesErr("Failed to list local branches: ", <<>>, <<>>)
    ELSE LET loaded == CollectLoaded(order, f.bad)
         IN  IF loaded.kind = "Err"
             THEN BranchesErr("Failed to load branch reference: ", loaded.at, order)
             ELSE BranchesOk(SortDedup(MapNames(loaded.refs)), order)

\* a call of branches() on a Repo handle
branches ==
    /\ cloneResult.kind = "Ok"
    /\ \E order \in Orders(local_branches(refs)) :
            branchesResult' = branches_value(order, fault)
    /\ UNCHANGED <<refs, fault, cloneVars>>

-----------------------------------------------------------------------------
(* Repo::clone_from, lines 26-66 *)

Terminal == {"Complete", "Failed"}

\* the stages of fetch_then_checkout (lines 50-52), in the order it runs them
FetchPhases == <<"Discovering", "Negotiating", "Transferring", "Persisting">>

InFetch == { FetchPhases[i] : i \in 1..Len(FetchPhases) }

\* the stages at which the gix call is handed IS_INTERRUPTED and polls it:
\* negotiation rounds and pack chunks (line 51), checkout steps (line 59)
PollPhases == {"Negotiating", "Transferring", "CheckingOut"}

\* the bare flag ignored when the repository is created
AlwaysWithWorktree(b) == "WithWorktree"

\* lines 35-39
Kind(b) == IF b THEN "Bare" ELSE "WithWorktree"

\* the bare flag ignored after the fetch
AlwaysCheckout(b) == "CheckingOut"

\* lines 54-57: what follows the fetch
AfterFetch(b) == IF b THEN "Skipped" ELSE "CheckingOut"

\* the errors the gix call running in phase p may return; a cancellation only
\* where the flag is polled and only once it is set
LibErrors(p, flag) ==
    (CASE p = "Requested" -> {"CreateError"}
       [] p = "Discovering" -> {"TransportError", "ProtocolError"}
       [] p = "Negotiating" -> {"ProtocolError"}
       [] p = "Transferring" -> {"TransportError", "CorruptObjectError"}
       [] p = "Persisting" -> {"ReferenceError"}
       [] p = "CheckingOut" -> {"CheckoutError"}
       [] OTHER -> {})
    \cup (IF flag /\ p \in PollPhases THEN {"Interrupted"} ELSE {})

\* one message for every call site
SameMessage(p) == "Failed to fetch repository: "

\* lines 48, 52, 60-62: the message map_err puts before the error's text
map_err(p) ==
    IF p = "Requested" THEN "Failed to prepare clone: "
    ELSE IF p \in InFetch THEN "Failed to fetch repository: "
    ELSE "Failed to checkout worktree: "

ClonedOk == [kind |-> "Ok", exception |-> "", msg |-> "", cause |-> ""]

NotReturned == [kind |-> "none", exception |-> "", msg |-> "", cause |-> ""]

\* lines 48, 52, 62: `?` returns the PyRuntimeError built by map_err
ReturnErr(p, e) ==
    [kind |-> "Err", exception |-> "PyRuntimeError", msg |-> map_err(p), cause |-> e]

\* the result of main_worktree discarded instead of propagated with `?`
IgnoreCheckoutError(p) == IF p = "CheckingOut" THEN "Complete" ELSE "Failed"

\* a failed transfer sent back to negotiation once
RetryTransferOnce(p) ==
    IF p = "Transferring" /\ Len(trace) < 5 THEN "Negotiating" ELSE "Failed"

\* where `?` leaves the call when the gix call of phase p returned an error
OnError(p) == "Failed"

\* the references a fetch leaves behind: remote-tracking branches for the
\* advertised branches in `tracked` and local branches for those in `local`
ClonedRefs(tracked, local) ==
    { FullName(RemotesPrefix, OriginSlash \o h) : h \in tracked }
        \cup { FullName(HeadsPrefix, h) : h \in local }

\* the call moves to phase p
Enter(p) ==
    /\ phase' = p
    /\ trace' = Append(trace, p)

\* the gix call of the current phase returns Err(e) and `?` propagates it
Fails(e) ==
    /\ libErr' = e
    /\ Enter(OnError(phase))
    /\ cloneResult' = IF OnError(phase) = "Failed"
                      THEN ReturnErr(phase, e) ELSE cloneResult

\* lines 41-48, PrepareFetch::new succeeds: the repository is created,
\* with a worktree directory unless its kind is Bare
prepare_Ok ==
    /\ phase = "Requested"
    /\ worktree' = IF Kind(bare) = "WithWorktree" THEN "created" ELSE "none"
    /\ Enter("Discovering")
    /\ UNCHANGED <<refs, fault, branchesResult, bare, remoteHeads,
                   interrupted, checkoutInvoked, libErr, cloneResult>>

\* lines 41-48, PrepareFetch::new fails
prepare_Err ==
    /\ phase = "Requested"
    /\ \E e \in LibErrors(phase, interrupted) : Fails(e)
    /\ UNCHANGED <<refs, fault, branchesResult, bare, remoteHeads,
                   interrupted, worktree, checkoutInvoked>>

\* lines 50-52, fetch_then_checkout passes a stage other than its last
fetch_step ==
    /\ \E i \in 1..(Len(FetchPhases) - 1) :
        /\ phase = FetchPhases[i]
        /\ Enter(FetchPhases[i + 1])
    /\ UNCHANGED <<refs, fault, branchesResult, bare, remoteHeads,
                   interrupted, worktree, checkoutInvoked, libErr, cloneResult>>

\* lines 50-57, fetch_then_checkout records references for branches the
\* remote advertises (which of them is up to gix) and returns Ok
fetch_Ok ==
    /\ phase = "Persisting"
    /\ \E tracked \in SUBSET remoteHeads, local \in SUBSET remoteHeads :
          refs' = ClonedRefs(tracked, local)
    /\ Enter(AfterFetch(bare))
    /\ UNCHANGED <<fault, branchesResult, bare, remoteHeads,
                   interrupted, worktree, checkoutInvoked, libErr, cloneResult>>

\* lines 50-52, fetch_then_checkout fails in one of its stages
fetch_Err ==
    /\ phase \in InFetch
    /\ \E e \in LibErrors(phase, interrupted) : Fails(e)
    /\ UNCHANGED <<refs, fault, branchesResult, bare, remoteHeads,
                   interrupted, worktree, checkoutInvoked>>

\* lines 54-56, bare: persist() cannot fail, the handle is returned
persist ==
    /\ phase = "Skipped"
    /\ Enter("Complete")
    /\ cloneResult' = ClonedOk
    /\ UNCHANGED <<refs, fault, branchesResult, bare, remoteHeads,
                   interrupted, worktree, checkoutInvoked, libErr>>

\* lines 58-64, main_worktree succeeds, the handle is returned
checkout_Ok ==
    /\ phase = "CheckingOut"
    /\ checkoutInvoked' = TRUE
    /\ worktree' = "checkedout"
    /\ Enter("Complete")
    /\ cloneResult' = ClonedOk
    /\ UNCHANGED <<refs, fault, branchesResult, bare, remoteHeads,
                   interrupted, libErr>>

\* lines 58-62, main_worktree fails
checkout_Err ==
    /\ phase = "CheckingOut"
    /\ checkoutInvoked' = TRUE
    /\ \E e \in LibErrors(phase, interrupted) : Fails(e)
    /\ UNCHANGED <<refs, fault, branchesResult, bare, remoteHeads,
                   interrupted, worktree>>

\* lines 51, 59: something in the process sets IS_INTERRUPTED during the call
interrupt ==
    /\ phase \notin Terminal
    /\ ~interrupted
    /\ interrupted' = TRUE
    /\ UNCHANGED <<refs, fault, branchesResult, bare, remoteHeads,
                   phase, trace, worktree, checkoutInvoked, libErr, cloneResult>>

\* a step of the clone_from call itself
clone_from ==
    \/ prepare_Ok \/ prepare_Err
    \/ fetch_step \/ fetch_Ok \/ fetch_Err
    \/ persist
    \/ checkout_Ok \/ checkout_Err

\* a step in which a gix call returns an error to clone_from
LibraryFails == prepare_Err \/ fetch_Err \/ checkout_Err

Remotes == { h \in SUBSET ShortNames : Cardinality(h) <= MaxRemoteBranches }

Init ==
    /\ refs = {}
    /\ fault \in [bad : {{}}, failAt : {"none", "access", "iter"}]
    /\ branchesResult = NotCalled
    /\ bare \in BOOLEAN
    /\ remoteHeads \in Remotes
    /\ phase = "Requested"
    /\ trace = <<"Requested">>
    /\ interrupted = FALSE
    /\ worktree = "none"
    /\ checkoutInvoked = FALSE
    /\ libErr = ""
    /\ cloneResult = NotReturned

Next == clone_from \/ interrupt \/ branches

Spec == Init /\ [][Next]_vars

\* the calling thread runs the call to its return: every gix call returns
FairSpec == Spec /\ WF_vars(clone_from)

-----------------------------------------------------------------------------
(* A repository that was cloned earlier and has been worked on since: the   *)
(* specification under which branches() is examined.                        *)

Stores == { s \in SUBSET RefUniverse : Cardinality(s) <= MaxRefs }

InitBranches ==
    /\ refs \in Stores
    /\ fault \in Faults(refs)
    /\ branchesResult = NotCalled
    /\ bare = FALSE
    /\ remoteHeads = {}
    /\ phase = "Complete"
    /\ trace = <<>>
    /\ interrupted = FALSE
    /\ worktree = "checkedout"
    /\ checkoutInvoked = TRUE
    /\ libErr = ""
    /\ cloneResult = ClonedOk

NextBranches == branches

SpecBranches == InitBranches /\ [][NextBranches]_vars

-----------------------------------------------------------------------------
(* Properties *)

Elements(v) == { v[i] : i \in 1..Len(v) }

StrictlyAscending(v) == \A i \in 1..(Len(v) - 1) : LexLess(v[i], v[i + 1])

\* the references of the store whose name lies under refs/heads/
LocalRefs == { r \in refs : r.prefix = "refs/heads/" }

\* a short name as text: itself when it is UTF-8, else its lossy decoding
Text(short) == IF IsUtf8(short) THEN short ELSE to_string(short)

\* C1: whatever the set of local branches and the order in which the store
\* enumerates them, a successful branches() returns a strictly ascending
\* sequence: sorted, and no name twice.
C1_SortedWithoutDuplicates ==
    branchesResult.kind = "Ok" => StrictlyAscending(branchesResult.value)

\* C1 witness: branches() succeeded on a store that holds two local branches
\* with the same display name and a third one, enumerated out of order.
C1_Witness ==
    /\ branchesResult.kind = "Ok"
    /\ Len(branchesResult.value) >= 2
    /\ \E a, b \in LocalRefs : a # b /\ Text(a.rest) = Text(b.rest)
    /\ \E i \in 1..(Len(branchesResult.order) - 1) :
          LexLess(Text(branchesResult.order[i + 1].rest),
                  Text(branchesResult.order[i].rest))

\* C6: branches() returns an error, and no list, when opening the store,
\* starting the iteration or loading any one reference fails, each with its
\* own message; when nothing fails it succeeds, and a branch whose short name
\* is not UTF-8 is listed under its lossy name.
C6_ErrorNeverPartialList ==
    branchesResult.kind # "none" =>
        /\ fault.failAt = "access" =>
              /\ branchesResult.kind = "Err"
              /\ branchesResult.msg = "Failed to access references: "
        /\ fault.failAt = "iter" =>
              /\ branchesResult.kind = "Err"
              /\ branchesResult.msg = "Failed to list local branches: "
        /\ (fault.failAt = "none" /\ fault.bad \cap LocalRefs # {}) =>
              /\ branchesResult.kind = "Err"
              /\ branchesResult.msg = "Failed to load branch reference: "
              /\ Elements(branchesResult.at) \subseteq fault.bad
        /\ branchesResult.kind = "Err" => branchesResult.value = <<>>
        /\ (fault.failAt = "none" /\ fault.bad \cap LocalRefs = {}) =>
              /\ branchesResult.kind = "Ok"
              /\ \A r \in LocalRefs : Text(r.rest) \in Elements(branchesResult.value)

\* C6 witness: one of several local branches failed to load, another one has
\* a short name that is not UTF-8, and branches() returned the error.
C6_Witness ==
    /\ branchesResult.kind = "Err"
    /\ fault.failAt = "none"
    /\ Cardinality(fault.bad) = 1
    /\ \E r \in LocalRefs \ fault.bad : ~IsUtf8(r.rest)

\* C9 as stated: a successful branches() returns exactly the short names
\* (the bytes after refs/heads/) of the local branches, and the empty
\* sequence when there are none.
C9_ExactlyTheShortNames ==
    branchesResult.kind = "Ok" =>
        /\ Elements(branchesResult.value) = { r.rest : r \in LocalRefs }
        /\ LocalRefs = {} => branchesResult.value = <<>>

\* C9 amended: a successful branches() returns exactly the short names of the
\* local branches as text, a short name that is not UTF-8 being replaced by
\* its lossy decoding; nothing outside refs/heads/ appears, and the result is
\* empty when there are no local branches.
C9_ExactlyTheDisplayNames ==
    branchesResult.kind = "Ok" =>
        /\ Elements(branchesResult.value) = { Text(r.rest) : r \in LocalRefs }
        /\ LocalRefs = {} => branchesResult.value = <<>>

\* C9 witness: branches() succeeded on a store with several local branches,
\* one of them not UTF-8, and a reference outside refs/heads/.
C9_Witness ==
    /\ branchesResult.kind = "Ok"
    /\ Cardinality(LocalRefs) >= 2
    /\ refs \ LocalRefs # {}
    /\ \E r \in LocalRefs : ~IsUtf8(r.rest)

\* C2: in a clone with bare = true main_worktree is never called and no
\* worktree directory exists; once the handle is returned branches() lists
\* the local branches the fetch recorded, each a branch the remote advertised.
C2_BareSkipsCheckout ==
    bare =>
        /\ ~checkoutInvoked
        /\ phase # "CheckingOut"
        /\ "CheckingOut" \notin Elements(trace)
        /\ worktree = "none"
        /\ (cloneResult.kind = "Ok" /\ branchesResult.kind = "Ok") =>
              /\ Elements(branchesResult.value) = { Text(r.rest) : r \in LocalRefs }
              /\ Elements(branchesResult.value)
                    \subseteq { Text(h) : h \in remoteHeads }

\* C2 witness: a bare clone of a remote with two branches returned its
\* handle and branches() listed a branch on it.
C2_Witness ==
    /\ bare
    /\ cloneResult.kind = "Ok"
    /\ branchesResult.kind = "Ok"
    /\ Cardinality(remoteHeads) >= 2
    /\ branchesResult.value # <<>>
    /\ refs \ LocalRefs # {}

C5_ErrorShortCircuits ==
    /\ cloneResult.kind = "Err" => libErr # ""
    /\ libErr # "" =>
        LET at == trace[Len(trace) - 1]
        IN  /\ phase = "Failed"
            /\ trace[Len(trace)] = "Failed"
            /\ cloneResult.kind = "Err"
            /\ cloneResult.cause = libErr
            /\ at = "Requested" => cloneResult.msg = "Failed to prepare clone: "
            /\ at \in {"Discovering", "Negotiating", "Transferring", "Persisting"} =>
                  cloneResult.msg = "Failed to fetch repository: "
            /\ at = "CheckingOut" => cloneResult.msg = "Failed to checkout worktree: "
            /\ at \in {"Requested", "Discovering", "Negotiating", "Transferring",
                       "Persisting", "CheckingOut"}
            /\ "Complete" \notin Elements(trace)
            /\ at # "CheckingOut" => ~checkoutInvoked /\ refs = {}
            /\ worktree # "checkedout"

\* C5 witness: the fetch failed during the transfer.
C5_Witness ==
    /\ libErr = "CorruptObjectError"
    /\ phase = "Failed"
    /\ ~bare

\* the order of a clone's phases
Expected(b) ==
    <<"Requested", "Discovering", "Negotiating", "Transferring", "Persisting",
      IF b THEN "Skipped" ELSE "CheckingOut", "Complete">>

\* the call has followed the order, possibly cut short by Failed
FollowsOrder ==
    /\ phase = trace[Len(trace)]
    /\ \E k \in 1..7 :
        \/ trace = SubSeq(Expected(bare), 1, k)
        \/ k < 7 /\ trace = Append(SubSeq(Expected(bare), 1, k), "Failed")

\* the call can fail now
CanFail == ENABLED (clone_from /\ phase' = "Failed")

\* C8 as stated: the phases follow the order, with CheckingOut exactly when
\* bare is false and Skipped exactly when it is true; Failed can follow every
\* phase that is not terminal and no terminal one.
C8_FailedFromEveryNonTerminal ==
    /\ FollowsOrder
    /\ phase \notin {"Complete", "Failed"} => CanFail
    /\ phase \in {"Complete", "Failed"} => ~CanFail

\* C8 amended: the phases follow the order, with CheckingOut exactly when
\* bare is false and Skipped exactly when it is true; Failed can follow every
\* phase that is not terminal except Skipped, and neither Skipped nor a
\* terminal one.
C8_FailedFromEveryFalliblePhase ==
    /\ FollowsOrder
    /\ phase \notin {"Complete", "Failed", "Skipped"} => CanFail
    /\ phase \in {"Complete", "Failed", "Skipped"} => ~CanFail
    /\ "Failed" \in Elements(trace) => "Skipped" \notin Elements(trace)

\* C8 witness: a bare clone has reached Skipped with the cancellation signal
\* set.
C8_Witness ==
    /\ phase = "Skipped"
    /\ interrupted

NoPhaseTwice ==
    \A i, j \in 1..Len(trace) : i # j => trace[i] # trace[j]

\* a call that has ended stays as it ended
TerminalStays ==
    phase \in {"Complete", "Failed"} =>
        (phase' = phase /\ cloneResult' = cloneResult /\ trace' = trace)

\* C10: every clone_from call ends Complete or Failed, with a handle exactly
\* when Complete and an error exactly when Failed; neither is ever left; and
\* no phase is entered twice, so nothing is retried.
C10_TerminatesWithoutRetry ==
    /\ <>(phase \in {"Complete", "Failed"})
    /\ [][TerminalStays]_vars
    /\ [](NoPhaseTwice)
    /\ [](phase = "Complete" <=> cloneResult.kind = "Ok")
    /\ [](phase = "Failed" <=> cloneResult.kind = "Err")

\* C10 witness: the call ended Failed after the transfer failed.
C10_Witness ==
    /\ phase = "Failed"
    /\ trace[Len(trace) - 1] = "Transferring"
    /\ libErr = "TransportError"

====
